---- MODULE Spec2Model ----
(***************************************************************************)
(* The DTDL tree generator: FlowModelGenerator (twin store, telemetry      *)
(* store), TreeGenerator.build_from_connections (graph builder) and        *)
(* TreeGenerator.generate_tree_html / _render_node_html (tree renderer).   *)
(*                                                                         *)
(* Python strings are TLA+ strings; where the code looks inside a string   *)
(* (lower(), substring tests) the string's characters come from Chars.     *)
(* Python dicts that are iterated are sequences of <<key, value>> pairs    *)
(* with distinct keys, in insertion order.  TreeNode objects live in heap; *)
(* a reference to a TreeNode is its index in heap.                         *)
(***************************************************************************)
EXTENDS Integers, Sequences, FiniteSets, TLC

VARIABLES
    models,          \* DTDLParser.models: model id -> DTDLModel
    twin_instances,  \* FlowModelGenerator.twin_instances: twin id -> twin
    telemetry_data,  \* FlowModelGenerator.telemetry_data: twin id -> snapshots
    heap,            \* every TreeNode constructed so far
    nodes,           \* TreeGenerator.nodes: <<id, reference>> in insertion order
    roots,           \* TreeGenerator.roots: sequence of references
    pc,              \* "idle", or "render" while generate_tree_html runs
    stack,           \* the activations of _render_node_html, innermost last
    root_idx,        \* position of generate_tree_html's loop over self.roots
    tree_html,       \* the local tree_html of the running pass
    previous,        \* <<the tree content the last pass wrote>>; <<>> when none
                     \* was written since the stores or the forest last changed
    builds,          \* number of build_from_connections calls so far
    connections      \* the argument of the last build_from_connections call

vars == <<models, twin_instances, telemetry_data, heap, nodes, roots, pc,
          stack, root_idx, tree_html, previous, builds, connections>>

flowVars   == <<models, twin_instances, telemetry_data>>
forestVars == <<heap, nodes, roots, builds, connections>>
passVars   == <<stack, root_idx, tree_html>>

-----------------------------------------------------------------------------
(* Bounds of the exploration.                                              *)

MaxEdges     == 3   \* longest edge list given to build_from_connections (Spec)
MaxTwins     == 1   \* twins created by generate_twin_instance (SpecFlow)
MaxSnapshots == 2   \* snapshots kept by generate_telemetry, all twins together (SpecFlow)
MaxDepth     == 4   \* deepest nesting of _render_node_html before RecursionError
MaxBuilds    == 2   \* build_from_connections calls on one TreeGenerator (SpecRebuild)

-----------------------------------------------------------------------------
(* Strings.                                                                *)

Chars ==
    [s \in {"pump1", "TANK2", "PumpTank", "v3",
            "current", "vibration", "temperature", "flowRate", "pressure",
            "level", "Voltage", "count"} |->
       CASE s = "pump1"       -> <<"p","u","m","p","1">>
         [] s = "TANK2"       -> <<"T","A","N","K","2">>
         [] s = "PumpTank"    -> <<"P","u","m","p","T","a","n","k">>
         [] s = "v3"          -> <<"v","3">>
         [] s = "current"     -> <<"c","u","r","r","e","n","t">>
         [] s = "vibration"   -> <<"v","i","b","r","a","t","i","o","n">>
         [] s = "temperature" -> <<"t","e","m","p","e","r","a","t","u","r","e">>
         [] s = "flowRate"    -> <<"f","l","o","w","R","a","t","e">>
         [] s = "pressure"    -> <<"p","r","e","s","s","u","r","e">>
         [] s = "level"       -> <<"l","e","v","e","l">>
         [] s = "Voltage"     -> <<"V","o","l","t","a","g","e">>
         [] s = "count"       -> <<"c","o","u","n","t">>]

UpperCase == <<"A","B","C","D","E","F","G","H","I","J","K","L","M",
               "N","O","P","Q","R","S","T","U","V","W","X","Y","Z">>
LowerCase == <<"a","b","c","d","e","f","g","h","i","j","k","l","m",
               "n","o","p","q","r","s","t","u","v","w","x","y","z">>

\* str.lower(), on the characters of a string
lower(cs) ==
    [i \in 1..Len(cs) |->
        IF \E k \in 1..26 : UpperCase[k] = cs[i]
        THEN LowerCase[CHOOSE k \in 1..26 : UpperCase[k] = cs[i]]
        ELSE cs[i]]

\* sub in cs
Contains(sub, cs) ==
    \E i \in 1..(Len(cs) - Len(sub) + 1) : SubSeq(cs, i, i + Len(sub) - 1) = sub

W_pump      == <<"p","u","m","p">>
W_tank      == <<"t","a","n","k">>
W_temp      == <<"t","e","m","p">>
W_current   == <<"c","u","r","r","e","n","t">>
W_voltage   == <<"v","o","l","t","a","g","e">>
W_volt      == <<"v","o","l","t">>
W_pressure  == <<"p","r","e","s","s","u","r","e">>
W_flow      == <<"f","l","o","w">>
W_level     == <<"l","e","v","e","l">>
W_vibration == <<"v","i","b","r","a","t","i","o","n">>
W_vib       == <<"v","i","b">>

-----------------------------------------------------------------------------
(* Python values and dicts.                                                *)

\* a Python value: its type and its str()
PyStr(s)   == <<"str", s>>
PyFloat(s) == <<"float", s>>
PyInt(s)   == <<"int", s>>
PyBool(s)  == <<"bool", s>>
PyNone     == <<"NoneType", "None">>

\* bool(v)
Truthy(v) ==
    v \notin {PyStr(""), PyFloat("0.0"), PyInt("0"), PyBool("False"), PyNone}

\* an insertion-ordered dict is a sequence of <<key, value>> with distinct keys
Keys(d) == {d[i][1] : i \in 1..Len(d)}

\* d.get(k, default)
Get(d, k, default) ==
    IF k \in Keys(d)
    THEN d[CHOOSE i \in 1..Len(d) : d[i][1] = k][2]
    ELSE default

\* d[k] = v : an existing key keeps its position, a new key goes last
Put(d, k, v) ==
    IF k \in Keys(d)
    THEN [i \in 1..Len(d) |-> IF d[i][1] = k THEN <<k, v>> ELSE d[i]]
    ELSE Append(d, <<k, v>>)

\* s[:n]
Take(s, n) == SubSeq(s, 1, IF Len(s) < n THEN Len(s) ELSE n)

\* s[-1]
Last(s) == s[Len(s)]

\* the permutations of a finite set, as sequences
Orderings(S) ==
    {f \in [1..Cardinality(S) -> S] : \A i, j \in 1..Cardinality(S) : f[i] = f[j] => i = j}

-----------------------------------------------------------------------------
(* DTDLParser.models: what load_directory left behind.                     *)

MOTOR == "dtmi:com:industrial:Motor;1"
PUMP  == "dtmi:com:industrial:Pump;1"
TANK  == "dtmi:com:industrial:Tank;1"
NO_ID == ""    \* DTDLModel.id of a model file that has no "@id"

Content(name, kind, first) == [name |-> name, schema |-> <<kind, first>>]

\* DTDLModel.__init__ applied to the three files of create_dtdl_files.py
MotorModel ==
    [display_name |-> "Motor",
     telemetries  |-> <<Content("current", "double", ""),
                        Content("vibration", "double", ""),
                        Content("temperature", "double", "")>>,
     properties   |-> <<Content("ratedPower", "double", ""),
                        Content("status", "Enum", "running")>>]

PumpModel ==
    [display_name |-> "Pump",
     telemetries  |-> <<Content("flowRate", "double", ""),
                        Content("pressure", "double", "")>>,
     properties   |-> <<Content("pumpType", "string", "")>>]

TankModel ==
    [display_name |-> "Tank",
     telemetries  |-> <<Content("level", "double", ""),
                        Content("temperature", "double", "")>>,
     properties   |-> <<Content("capacity", "double", ""),
                        Content("material", "string", ""),
                        Content("highLevelAlarm", "double", ""),
                        Content("lowLevelAlarm", "double", "")>>]

\* DTDLModel.__init__ applied to a file without "@id": it is kept under ""
SensorModel ==
    [display_name |-> "Sensor",
     telemetries  |-> <<Content("Voltage", "double", ""),
                        Content("count", "integer", ""),
                        Content("level", "double", ""),
                        Content("temperature", "double", "")>>,
     properties   |-> <<Content("status", "string", "")>>]

\* the directory written by create_dtdl_files.py
ShippedModels ==
    [m \in {MOTOR, PUMP, TANK} |->
        CASE m = MOTOR -> MotorModel [] m = PUMP -> PumpModel [] m = TANK -> TankModel]

\* a directory holding Pump.json and a model file without "@id"
MixedModels ==
    [m \in {PUMP, NO_ID} |-> IF m = PUMP THEN PumpModel ELSE SensorModel]

-----------------------------------------------------------------------------
(* FlowModelGenerator.                                                     *)

\* _generate_default_value(schema)
_generate_default_value(schema) ==
    CASE schema[1] = "string"                -> PyStr("")
      [] schema[1] \in {"double", "float"}   -> PyFloat("0.0")
      [] schema[1] \in {"integer", "long"}   -> PyInt("0")
      [] schema[1] = "boolean"               -> PyBool("False")
      [] schema[1] = "Enum" /\ schema[2] # "" -> PyStr(schema[2])
      [] OTHER                               -> PyNone

\* the loop "for prop in model.properties" of generate_twin_instance
RECURSIVE InitDefaults(_, _)
InitDefaults(props, declared) ==
    IF declared = <<>> THEN props
    ELSE InitDefaults(
            IF Head(declared).name \in Keys(props) THEN props
            ELSE Put(props, Head(declared).name,
                     _generate_default_value(Head(declared).schema)),
            Tail(declared))

\* the twin dict of generate_twin_instance ("$etag" is never read again)
Twin(twin_id, model_id, properties) ==
    [empty      |-> FALSE,
     dtId       |-> twin_id,
     model      |-> model_id,
     properties |-> InitDefaults(properties, models[model_id].properties)]

\* {} : what twin_instances.get(node_id, {}) gives for an unknown id
EmptyDict == [empty |-> TRUE, dtId |-> "", model |-> "", properties |-> <<>>]

\* random.uniform(lo, hi) and random.randint(lo, hi), in hundredths, at the
\* point u/8 of the range
Uniform(lo, hi, u) == lo + ((hi - lo) * u) \div 8

\* round(x, 1) and round(x, 2) of a value in hundredths
Round1(x) == ((x + 5) \div 10) * 10
Round2(x) == x

\* _generate_telemetry_value(name, schema), u being the random draw
_generate_telemetry_value(name, schema, u) ==
    LET name_lower == lower(Chars[name]) IN
    CASE Contains(W_temp, name_lower)      -> Round1(Uniform(2000, 8000, u))
      [] Contains(W_current, name_lower)   -> Round2(Uniform(500, 2000, u))
      [] Contains(W_voltage, name_lower) \/ Contains(W_volt, name_lower)
                                           -> Round1(Uniform(22000, 24000, u))
      [] Contains(W_pressure, name_lower)  -> Round2(Uniform(100, 500, u))
      [] Contains(W_flow, name_lower)      -> Round2(Uniform(1000, 5000, u))
      [] Contains(W_level, name_lower)     -> Round1(Uniform(0, 10000, u))
      [] Contains(W_vibration, name_lower) \/ Contains(W_vib, name_lower)
                                           -> Round2(Uniform(10, 200, u))
      [] schema[1] \in {"double", "float"} -> Round2(Uniform(0, 10000, u))
      [] schema[1] \in {"integer", "long"} -> (Uniform(0, 10000, u) \div 100) * 100
      [] OTHER                             -> 0

\* the loop "for tel in model.telemetries" of generate_telemetry
RECURSIVE TelemetryDict(_, _, _)
TelemetryDict(data, tels, draws) ==
    IF tels = <<>> THEN data
    ELSE TelemetryDict(
            Put(data, Head(tels).name,
                _generate_telemetry_value(Head(tels).name, Head(tels).schema,
                                          Head(draws))),
            Tail(tels), Tail(draws))

\* the snapshots kept so far, all twins together
SnapshotCount ==
    Cardinality({p \in (DOMAIN telemetry_data) \X (1..MaxSnapshots) :
                    p[2] <= Len(telemetry_data[p[1]])})

\* f with f[k] = v
Store(f, k, v) == [x \in DOMAIN f \cup {k} |-> IF x = k THEN v ELSE f[x]]

generate_twin_instance(twin_id, model_id, properties) ==
    /\ pc = "idle"
    /\ IF model_id \notin DOMAIN models
       THEN UNCHANGED <<twin_instances, previous>>    \* ValueError
       ELSE /\ twin_id \notin DOMAIN twin_instances
            /\ Cardinality(DOMAIN twin_instances) < MaxTwins
            /\ twin_instances' =
                  Store(twin_instances, twin_id, Twin(twin_id, model_id, properties))
            /\ previous' = <<>>
    /\ UNCHANGED <<models, telemetry_data, forestVars, passVars, pc>>

generate_telemetry(twin_id, draws) ==
    /\ pc = "idle"
    /\ IF twin_id \notin DOMAIN twin_instances
       THEN UNCHANGED <<telemetry_data, previous>>    \* ValueError
       ELSE LET model     == models[twin_instances[twin_id].model]
                telemetry == [twin_id |-> twin_id,
                              data    |-> TelemetryDict(<<>>, model.telemetries, draws)]
                earlier   == IF twin_id \in DOMAIN telemetry_data
                             THEN telemetry_data[twin_id] ELSE <<>>
            IN  /\ SnapshotCount < MaxSnapshots
                /\ telemetry_data' = Store(telemetry_data, twin_id,
                                           Append(earlier, telemetry))
                /\ previous' = <<>>
    /\ UNCHANGED <<models, twin_instances, forestVars, passVars, pc>>

-----------------------------------------------------------------------------
(* TreeNode and TreeGenerator.build_from_connections.                      *)

None == 0    \* the reference to no TreeNode

\* TreeNode.__init__(id, data): "data or {}" is data, an empty dict included
TreeNode(id, data) == [id |-> id, data |-> data, children |-> <<>>, parent |-> None]

\* add_child that skips a child already listed
add_child_unique(h, self, child) ==
    IF \E k \in 1..Len(h[self].children) : h[self].children[k] = child
    THEN h
    ELSE LET h1 == [h EXCEPT ![child].parent = self]
         IN  [h1 EXCEPT ![self].children = Append(@, child)]

\* add_child that first takes the child away from the parent it had
add_child_move(h, self, child) ==
    LET old == h[child].parent
        h0  == IF old = None THEN h
               ELSE [h EXCEPT ![old].children =
                        SelectSeq(@, LAMBDA c : c # child)]
        h1  == [h0 EXCEPT ![child].parent = self]
    IN  [h1 EXCEPT ![self].children = Append(@, child)]

\* TreeNode.add_child, on the objects h: self and child are references
add_child(h, self, child) ==
    LET h1 == [h EXCEPT ![child].parent = self]
    IN  [h1 EXCEPT ![self].children = Append(@, child)]

\* a connection {"source": s, "target": t}
Conn(s, t) == [source |-> s, target |-> t]

\* all_ids without the line all_ids.add(conn["target"])
AllIds_sources(conns) == {conns[i].source : i \in 1..Len(conns)}

\* the set all_ids filled by the first loop
AllIds(conns) ==
    {conns[i].source : i \in 1..Len(conns)}
        \cup {conns[i].target : i \in 1..Len(conns)}

\* self.flow_model.twin_instances.get(node_id, {})
TwinData(node_id) ==
    IF node_id \in DOMAIN twin_instances THEN twin_instances[node_id] ELSE EmptyDict

\* the loop "for node_id in all_ids", all_ids being iterated in the order
\* order: st is [heap, nodes]
RECURSIVE CreateNodes(_, _)
CreateNodes(st, order) ==
    IF order = <<>> THEN st
    ELSE CreateNodes(
            [heap  |-> Append(st.heap, TreeNode(Head(order), TwinData(Head(order)))),
             nodes |-> Put(st.nodes, Head(order), Len(st.heap) + 1)],
            Tail(order))

\* the loop with children_ids.add(source_id) in place of add(target_id)
RECURSIVE LinkNodes_source(_, _)
LinkNodes_source(st, conns) ==
    IF conns = <<>> THEN st
    ELSE LET source_id == Head(conns).source
             target_id == Head(conns).target
         IN  LinkNodes_source(
                IF source_id \in Keys(st.nodes) /\ target_id \in Keys(st.nodes)
                THEN [heap  |-> add_child(st.heap, Get(st.nodes, source_id, None),
                                          Get(st.nodes, target_id, None)),
                      nodes |-> st.nodes,
                      children_ids |-> st.children_ids \cup {source_id}]
                ELSE st,
                Tail(conns))

\* the loop "for conn in connections": st is [heap, nodes, children_ids]
RECURSIVE LinkNodes(_, _)
LinkNodes(st, conns) ==
    IF conns = <<>> THEN st
    ELSE LET source_id == Head(conns).source
             target_id == Head(conns).target
         IN  LinkNodes(
                IF source_id \in Keys(st.nodes) /\ target_id \in Keys(st.nodes)
                THEN [heap  |-> add_child(st.heap, Get(st.nodes, source_id, None),
                                          Get(st.nodes, target_id, None)),
                      nodes |-> st.nodes,
                      children_ids |-> st.children_ids \cup {target_id}]
                ELSE st,
                Tail(conns))

\* [node for node_id, node in self.nodes.items() if node_id not in children_ids]
RECURSIVE FindRoots(_, _)
FindRoots(items, children_ids) ==
    IF items = <<>> THEN <<>>
    ELSE IF Head(items)[1] \notin children_ids
         THEN <<Head(items)[2]>> \o FindRoots(Tail(items), children_ids)
         ELSE FindRoots(Tail(items), children_ids)

\* build_from_connections that starts from an emptied node map
build_from_connections_cleared(conns, order) ==
    /\ pc = "idle"
    /\ order \in Orderings(AllIds(conns))
    /\ LET created == CreateNodes([heap |-> heap, nodes |-> <<>>], order)
           linked  == LinkNodes([heap |-> created.heap, nodes |-> created.nodes,
                                 children_ids |-> {}], conns)
       IN  /\ heap'  = linked.heap
           /\ nodes' = linked.nodes
           /\ roots' = FindRoots(linked.nodes, linked.children_ids)
    /\ builds' = builds + 1
    /\ connections' = conns
    /\ previous' = <<>>
    /\ UNCHANGED <<flowVars, passVars, pc>>

\* build_from_connections(connections); order is the order in which the set
\* all_ids is iterated, which the hash seed of the run decides
build_from_connections(conns, order) ==
    /\ pc = "idle"
    /\ order \in Orderings(AllIds(conns))
    /\ LET created == CreateNodes([heap |-> heap, nodes |-> nodes], order)
           linked  == LinkNodes([heap |-> created.heap, nodes |-> created.nodes,
                                 children_ids |-> {}], conns)
       IN  /\ heap'  = linked.heap
           /\ nodes' = linked.nodes
           /\ roots' = FindRoots(linked.nodes, linked.children_ids)
    /\ builds' = builds + 1
    /\ connections' = conns
    /\ previous' = <<>>
    /\ UNCHANGED <<flowVars, passVars, pc>>

-----------------------------------------------------------------------------
(* TreeGenerator._render_node_html and generate_tree_html.                 *)
(* The HTML text is a sequence of elements: the <a> of a node inside its   *)
(* <li>, "<ul>", "</ul>" and "</li>".  tree_html is the text produced so   *)
(* far by the pass, in the order in which the returned strings are joined. *)

\* _get_unit(key)
_get_unit(key) ==
    LET key_lower == lower(Chars[key]) IN
    CASE Contains(W_temp, key_lower)      -> "°C"
      [] Contains(W_current, key_lower)   -> "A"
      [] Contains(W_pressure, key_lower)  -> "bar"
      [] Contains(W_flow, key_lower)      -> "L/s"
      [] Contains(W_level, key_lower)     -> "%"
      [] Contains(W_vibration, key_lower) -> "Hz"
      [] OTHER                            -> ""

\* f"{value:.1f}" of a value in hundredths: the number of tenths shown
Format1f(value) == (value + 5) \div 10

\* one entry of tooltip_items, or the model name the tooltip falls back to
Line(kind, key, text, tenths, unit) ==
    [kind |-> kind, key |-> key, text |-> text, tenths |-> tenths, unit |-> unit]

\* the loop "for key, value in properties.items()"
RECURSIVE PropertyLines(_)
PropertyLines(properties) ==
    IF properties = <<>> THEN <<>>
    ELSE IF Head(properties)[1] # "status"
         THEN <<Line("property", Head(properties)[1], Head(properties)[2][2], 0, "")>>
                 \o PropertyLines(Tail(properties))
         ELSE PropertyLines(Tail(properties))

\* the loop over telemetry.items() without the slice [:3]
TelemetryLines_all(telemetry) ==
    [i \in 1..Len(telemetry) |->
        Line("telemetry", telemetry[i][1], "", Format1f(telemetry[i][2]),
             _get_unit(telemetry[i][1]))]

\* the loop "for key, value in list(telemetry.items())[:3]"
TelemetryLines(telemetry) ==
    LET shown == Take(telemetry, 3)
    IN  [i \in 1..Len(shown) |->
            Line("telemetry", shown[i][1], "", Format1f(shown[i][2]),
                 _get_unit(shown[i][1]))]

\* the telemetry dict taken from telemetry_list[0] in place of [-1]
LatestTelemetry_first(node_id) ==
    IF node_id \in DOMAIN telemetry_data
    THEN Head(telemetry_data[node_id]).data
    ELSE <<>>

\* the telemetry dict read by _render_node_html
LatestTelemetry(node_id) ==
    IF node_id \in DOMAIN telemetry_data
    THEN Last(telemetry_data[node_id]).data
    ELSE <<>>

\* model_name of _render_node_html
ModelName(data) ==
    IF data.model \in DOMAIN models THEN models[data.model].display_name ELSE "Unknown"

\* tooltip of _render_node_html, as its lines
Tooltip(node) ==
    LET tooltip_items == PropertyLines(node.data.properties)
                            \o TelemetryLines(LatestTelemetry(node.id))
    IN  IF tooltip_items # <<>> THEN tooltip_items
        ELSE <<Line("model_name", "", ModelName(node.data), 0, "")>>

\* node_class with "running" for every pump that is not stopped
NodeClass_else(node) ==
    LET status == Get(node.data.properties, "status", PyStr(""))
        id_lower == lower(Chars[node.id])
    IN  IF Contains(W_pump, id_lower)
        THEN <<"node", "pump-node">>
                \o (IF status = PyStr("stopped") THEN <<"stopped">> ELSE <<"running">>)
        ELSE IF Contains(W_tank, id_lower)
             THEN <<"node", "tank-node">>
             ELSE <<"node">>

\* node_class with the tests made on node.id in place of node.id.lower()
NodeClass_cased(node) ==
    LET status == Get(node.data.properties, "status", PyStr(""))
    IN  IF Contains(W_pump, Chars[node.id])
        THEN <<"node", "pump-node">>
                \o (IF status = PyStr("running") THEN <<"running">>
                    ELSE IF status = PyStr("stopped") THEN <<"stopped">>
                    ELSE <<>>)
        ELSE IF Contains(W_tank, Chars[node.id])
             THEN <<"node", "tank-node">>
             ELSE <<"node">>

\* node_class of _render_node_html, as its class tags
NodeClass(node) ==
    LET status == Get(node.data.properties, "status", PyStr(""))
        id_lower == lower(Chars[node.id])
    IN  IF Contains(W_pump, id_lower)
        THEN <<"node", "pump-node">>
                \o (IF status = PyStr("running") THEN <<"running">>
                    ELSE IF status = PyStr("stopped") THEN <<"stopped">>
                    ELSE <<>>)
        ELSE IF Contains(W_tank, id_lower)
             THEN <<"node", "tank-node">>
             ELSE <<"node">>

\* the status indicator span: <<>> when none is written
StatusIndicator(node) ==
    LET status == Get(node.data.properties, "status", PyStr(""))
    IN  IF Truthy(status)
        THEN <<IF status = PyStr("running") THEN "▶"
               ELSE IF status = PyStr("stopped") THEN "⏸" ELSE "⚠",
               status[2]>>
        ELSE <<>>

Element(tag, id, class, tooltip, type, status) ==
    [tag |-> tag, id |-> id, class |-> class, tooltip |-> tooltip,
     type |-> type, status |-> status]

Markup(tag) == Element(tag, "", <<>>, <<>>, "", <<>>)

\* what _render_node_html(node) writes before it renders the children
OpenNode(node) ==
    <<Element("li", node.id, NodeClass(node), Tooltip(node),
              ModelName(node.data), StatusIndicator(node))>>
        \o (IF node.children # <<>> THEN <<Markup("ul")>> ELSE <<>>)

\* what _render_node_html(node) writes after it rendered the children
CloseNode(node) ==
    (IF node.children # <<>> THEN <<Markup("/ul")>> ELSE <<>>) \o <<Markup("/li")>>

\* an activation of _render_node_html: its node and the child it renders next
Frame(ref) == [node |-> ref, child |-> 1]

\* generate_tree_html with tree_html kept from the pass before
generate_tree_html_kept ==
    /\ pc = "idle"
    /\ pc' = "render"
    /\ tree_html' = IF previous # <<>> THEN previous[1] ELSE <<>>
    /\ root_idx' = 1
    /\ stack' = <<>>
    /\ UNCHANGED <<flowVars, forestVars, previous>>

\* generate_tree_html is called
generate_tree_html ==
    /\ pc = "idle"
    /\ pc' = "render"
    /\ tree_html' = <<>>
    /\ root_idx' = 1
    /\ stack' = <<>>
    /\ UNCHANGED <<flowVars, forestVars, previous>>

\* the children taken last first
NextCall_reversed ==
    IF stack = <<>> THEN roots[root_idx]
    ELSE LET children == heap[Last(stack).node].children
         IN  children[Len(children) + 1 - Last(stack).child]

\* the next activation of _render_node_html: of the next root when no
\* activation is running, else of the next child of the innermost one
NextCall ==
    IF stack = <<>> THEN roots[root_idx]
    ELSE heap[Last(stack).node].children[Last(stack).child]

HasNextCall ==
    IF stack = <<>> THEN root_idx <= Len(roots)
    ELSE Last(stack).child <= Len(heap[Last(stack).node].children)

\* the caller's loop moves on to the element after the one being rendered
Advance ==
    IF stack = <<>>
    THEN /\ root_idx' = root_idx + 1
         /\ stack' = <<Frame(NextCall)>>
    ELSE /\ root_idx' = root_idx
         /\ stack' = Append([stack EXCEPT ![Len(stack)].child = @ + 1],
                            Frame(NextCall))

\* the call _render_node_html(node) is made: a new activation starts
render_call ==
    /\ pc = "render"
    /\ HasNextCall
    /\ Len(stack) < MaxDepth
    /\ Advance

\* _render_node_html(node) is entered and writes the node's own element
_render_node_html ==
    /\ render_call
    /\ tree_html' = tree_html \o OpenNode(heap[NextCall])
    /\ UNCHANGED <<flowVars, forestVars, pc, previous>>

\* _render_node_html(node) has rendered every child and returns
render_return ==
    /\ pc = "render"
    /\ stack # <<>>
    /\ ~HasNextCall
    /\ tree_html' = tree_html \o CloseNode(heap[Last(stack).node])
    /\ stack' = SubSeq(stack, 1, Len(stack) - 1)
    /\ UNCHANGED <<flowVars, forestVars, pc, root_idx, previous>>

\* the recursion limit is reached and the text rendered so far is written
recursion_error_written ==
    /\ pc = "render"
    /\ HasNextCall
    /\ Len(stack) >= MaxDepth
    /\ pc' = "idle"
    /\ stack' = <<>>
    /\ root_idx' = 1
    /\ previous' = <<tree_html>>
    /\ tree_html' = <<>>
    /\ UNCHANGED <<flowVars, forestVars>>

\* the interpreter's recursion limit is reached: RecursionError leaves
\* generate_tree_html, its locals are lost and nothing is written
recursion_error ==
    /\ pc = "render"
    /\ HasNextCall
    /\ Len(stack) >= MaxDepth
    /\ pc' = "idle"
    /\ stack' = <<>>
    /\ root_idx' = 1
    /\ tree_html' = <<>>
    /\ UNCHANGED <<flowVars, forestVars, previous>>

\* every root is rendered: the template is filled and the artifact written
write_output ==
    /\ pc = "render"
    /\ stack = <<>>
    /\ ~HasNextCall
    /\ previous' = <<tree_html>>
    /\ pc' = "idle"
    /\ root_idx' = 1
    /\ tree_html' = <<>>
    /\ UNCHANGED <<flowVars, forestVars, stack>>

-----------------------------------------------------------------------------
(* Specifications.                                                         *)

ForestIds == {"pump1", "TANK2", "v3"}
FlowIds   == {"TANK2", "PumpTank"}

\* the edge lists of at most n connections over the identifiers ids
Connections(ids, n) ==
    UNION {[1..k -> {Conn(s, t) : s \in ids, t \in ids}] : k \in 0..n}

\* the properties argument of generate_twin_instance
PropertyArgs ==
    { <<>>,
      << <<"status", PyStr("stopped")>> >>,
      << <<"ratedPower", PyFloat("20.0")>>, <<"status", PyStr("fault")>>,
         <<"pumpType", PyStr("Centrifugal")>> >> }

\* the connection lists given to build_from_connections under SpecFlow:
\* the empty list and every list of one connection
FlowConnections == {<<>>} \cup {<<Conn(s, t)>> : s \in FlowIds, t \in FlowIds}

\* the random draws of one generate_telemetry call, one per telemetry
RandomDraws == { <<0, 0, 0, 0>>, <<3, 8, 5, 1>> }

\* the twins and telemetry created by create_tree_from_json for two twins
ScriptTwins ==
    [t \in {"pump1", "TANK2"} |->
        IF t = "pump1"
        THEN [empty |-> FALSE, dtId |-> t, model |-> PUMP,
              properties |-> << <<"ratedPower", PyFloat("20.0")>>,
                                <<"status", PyStr("running")>>,
                                <<"pumpType", PyStr("Centrifugal")>> >>]
        ELSE [empty |-> FALSE, dtId |-> t, model |-> TANK,
              properties |-> << <<"capacity", PyFloat("5000.0")>>,
                                <<"material", PyStr("Stainless Steel")>>,
                                <<"highLevelAlarm", PyFloat("0.0")>>,
                                <<"lowLevelAlarm", PyFloat("0.0")>> >>]]

ScriptTelemetry ==
    [t \in {"pump1", "TANK2"} |->
        <<[twin_id |-> t,
           data |-> TelemetryDict(<<>>, ShippedModels[
                        IF t = "pump1" THEN PUMP ELSE TANK].telemetries,
                        <<3, 8, 5, 1>>)]>>]

InitTree ==
    /\ heap = <<>>
    /\ nodes = <<>>
    /\ roots = <<>>
    /\ pc = "idle"
    /\ stack = <<>>
    /\ root_idx = 1
    /\ tree_html = <<>>
    /\ previous = <<>>
    /\ builds = 0
    /\ connections = <<>>

\* a fresh TreeGenerator over the flow model create_tree_from_json prepares:
\* twins and telemetry for "pump1" and "TANK2", none for "v3"
Init ==
    /\ models = ShippedModels
    /\ twin_instances = ScriptTwins
    /\ telemetry_data = ScriptTelemetry
    /\ InitTree

Next ==
    \/ /\ builds = 0
       /\ \E conns \in Connections(ForestIds, MaxEdges) :
          \E order \in Orderings(AllIds(conns)) :
             build_from_connections(conns, order)
    \/ generate_tree_html
    \/ _render_node_html
    \/ render_return
    \/ recursion_error
    \/ write_output

Spec == Init /\ [][Next]_vars

\* a fresh FlowModelGenerator and a fresh TreeGenerator over loaded models
InitFlow ==
    /\ models \in {ShippedModels, MixedModels}
    /\ twin_instances = <<>>
    /\ telemetry_data = <<>>
    /\ InitTree

NextFlow ==
    \/ \E twin_id \in FlowIds, model_id \in {MOTOR, NO_ID},
          properties \in PropertyArgs :
          generate_twin_instance(twin_id, model_id, properties)
    \/ \E twin_id \in FlowIds, draws \in RandomDraws :
          generate_telemetry(twin_id, draws)
    \/ /\ builds = 0
       /\ \E conns \in FlowConnections :
          \E order \in Orderings(AllIds(conns)) :
             build_from_connections(conns, order)
    \/ generate_tree_html
    \/ _render_node_html
    \/ render_return
    \/ write_output

SpecFlow == InitFlow /\ [][NextFlow]_vars

\* the connection lists given to build_from_connections under SpecRebuild:
\* the empty list and the lists of one and of two connections
RebuildIds == {"pump1", "TANK2"}
RebuildConnections ==
    {<<>>} \cup {<<Conn(s, t)>> : s \in RebuildIds, t \in RebuildIds}
           \cup {<<Conn(s, t), Conn(u, v)>> :
                    s \in RebuildIds, t \in RebuildIds,
                    u \in RebuildIds, v \in RebuildIds}

\* a running generate_tree_html call is executed: the call it is about to
\* make is made, the activation that is done returns, the pass ends
Executed ==
    /\ WF_stack(render_call)
    /\ WF_vars(render_return)
    /\ WF_vars(recursion_error)
    /\ WF_vars(write_output)

\* one TreeGenerator on which build_from_connections is called again and
\* again
NextRebuild ==
    \/ /\ builds < MaxBuilds
       /\ \E conns \in RebuildConnections :
          \E order \in Orderings(AllIds(conns)) :
             build_from_connections(conns, order)
    \/ generate_tree_html
    \/ _render_node_html
    \/ render_return
    \/ recursion_error
    \/ write_output

SpecRebuild == Init /\ [][NextRebuild]_vars /\ Executed

-----------------------------------------------------------------------------
(* Properties of the graph builder, on a fresh TreeGenerator (Spec).       *)

SourceIds == {connections[i].source : i \in 1..Len(connections)}
TargetIds == {connections[i].target : i \in 1..Len(connections)}

\* the targets of the edges of conns whose source is s, in edge-list order
RECURSIVE TargetsOf(_, _)
TargetsOf(conns, s) ==
    IF conns = <<>> THEN <<>>
    ELSE IF Head(conns).source = s
         THEN <<Head(conns).target>> \o TargetsOf(Tail(conns), s)
         ELSE TargetsOf(Tail(conns), s)

\* the TreeNode the node map holds for id
NodeOf(id) == Get(nodes, id, None)

\* C1: after build_from_connections(E) on a fresh TreeGenerator the node map
\* holds exactly one TreeNode per identifier that is a source or a target
\* in E, each under its own identifier, and no other TreeNode exists.
C1_NodeSetIsUnion ==
    builds = 1 =>
        /\ Keys(nodes) = SourceIds \cup TargetIds
        /\ Len(nodes) = Cardinality(SourceIds \cup TargetIds)
        /\ Len(heap) = Len(nodes)
        /\ \A i \in 1..Len(nodes) :
              /\ nodes[i][2] \in 1..Len(heap)
              /\ heap[nodes[i][2]].id = nodes[i][1]
        /\ \A i, j \in 1..Len(nodes) : nodes[i][2] = nodes[j][2] => i = j

\* three edges over two identifiers, one of them only ever a target
C1_Witness ==
    /\ builds = 1
    /\ Len(connections) = 3
    /\ Len(nodes) = 2
    /\ TargetIds \ SourceIds # {}

\* C2: after build_from_connections(E) on a fresh TreeGenerator a node is
\* in roots if and only if its identifier is the target of no edge of E;
\* roots lists nodes of the node map, each once.
C2_RootsAreNonTargets ==
    builds = 1 =>
        /\ \A i \in 1..Len(nodes) :
              (\E k \in 1..Len(roots) : roots[k] = nodes[i][2])
                  <=> nodes[i][1] \notin TargetIds
        /\ \A k \in 1..Len(roots) : \E i \in 1..Len(nodes) : nodes[i][2] = roots[k]
        /\ \A k, l \in 1..Len(roots) : roots[k] = roots[l] => k = l

\* a self-loop makes its node a non-root while another node is a root
C2_Witness ==
    /\ builds = 1
    /\ \E i \in 1..Len(connections) :
          /\ connections[i].source = connections[i].target
          /\ \A k \in 1..Len(roots) : heap[roots[k]].id # connections[i].source
    /\ roots # <<>>

\* C3: after build_from_connections(E) the child sequence of every node s
\* is the sequence of the nodes of the targets of the edges of E whose
\* source is s, in edge-list order, a repeated edge giving a repeated child.
C3_ChildrenFollowEdges ==
    builds = 1 =>
        \A i \in 1..Len(nodes) :
            LET targets == TargetsOf(connections, nodes[i][1])
            IN  heap[nodes[i][2]].children =
                    [k \in 1..Len(targets) |-> NodeOf(targets[k])]

\* a node with the children a, b, a
C3_Witness ==
    /\ builds = 1
    /\ \E r \in 1..Len(heap) :
          /\ Len(heap[r].children) = 3
          /\ heap[r].children[1] = heap[r].children[3]
          /\ heap[r].children[1] # heap[r].children[2]

-----------------------------------------------------------------------------
(* Properties of the renderer's output.  A pass that ran to its end left   *)
(* its tree content in previous.                                           *)

Output == previous[1]

\* the <li> elements open before position k of h
LiDepth(h, k) ==
    Cardinality({j \in 1..(k - 1) : h[j].tag = "li"})
        - Cardinality({j \in 1..(k - 1) : h[j].tag = "/li"})

LiPositions(h) == {i \in 1..Len(h) : h[i].tag = "li"}

\* the position of the </li> that closes the <li> at position i
EndOf(h, i) ==
    CHOOSE k \in (i + 1)..Len(h) :
        /\ h[k].tag = "/li"
        /\ LiDepth(h, k) = LiDepth(h, i) + 1
        /\ \A m \in (i + 1)..(k - 1) :
              ~(h[m].tag = "/li" /\ LiDepth(h, m) = LiDepth(h, i) + 1)

\* the text of the element at position i, nested elements included
Subtree(h, i) == SubSeq(h, i, EndOf(h, i))

\* the identifiers of the <li> elements at nesting depth d among the
\* positions from..to of h, in order
RECURSIVE IdsAtDepth(_, _, _, _)
IdsAtDepth(h, from, to, d) ==
    IF from > to THEN <<>>
    ELSE (IF h[from].tag = "li" /\ LiDepth(h, from) = d THEN <<h[from].id>> ELSE <<>>)
            \o IdsAtDepth(h, from + 1, to, d)

\* the identifiers of the elements nested directly in the element at i
NestedIds(h, i) == IdsAtDepth(h, i + 1, EndOf(h, i), LiDepth(h, i) + 1)

IdsOf(refs) == [k \in 1..Len(refs) |-> heap[refs[k]].id]

Count(seq, x) == Cardinality({k \in 1..Len(seq) : seq[k] = x})

\* the identifiers reachable from the identifiers S along the edges of conns
RECURSIVE ReachableIds(_, _)
ReachableIds(S, conns) ==
    LET more == S \cup {conns[i].target : i \in {j \in 1..Len(conns) : conns[j].source \in S}}
    IN  IF more = S THEN S ELSE ReachableIds(more, conns)

\* no identifier is reached from itself along the edges of conns
Acyclic(conns) ==
    \A i \in 1..Len(conns) :
        conns[i].source \notin ReachableIds({conns[i].target}, conns)

\* the output has the forest's shape: the top-level elements are the roots
\* in order, and each element nests the elements of its node's children in
\* stored order, inside a <ul> exactly when there are children
MirrorsForest(h) ==
    /\ IdsAtDepth(h, 1, Len(h), 0) = IdsOf(roots)
    /\ \A i \in LiPositions(h) :
          /\ h[i].id \in Keys(nodes)
          /\ NestedIds(h, i) = IdsOf(heap[NodeOf(h[i].id)].children)
          /\ (h[i + 1].tag = "ul") <=> (heap[NodeOf(h[i].id)].children # <<>>)

AllNodesRendered(h) == Keys(nodes) \subseteq {h[i].id : i \in LiPositions(h)}

\* C5 as stated: for every edge list the output mirrors the forest and
\* every node of the node map is rendered at least once.
C5_AsStated ==
    (builds = 1 /\ previous # <<>>) =>
        MirrorsForest(Output) /\ AllNodesRendered(Output)

\* C5: the output of a pass that ran to its end mirrors the forest built
\* from the edge list (roots in order, each element nesting the elements of
\* its node's children in stored order), and when the edge list has no
\* cycle every node of the node map is rendered at least once.
C5_MirrorsForest ==
    (builds = 1 /\ previous # <<>>) =>
        /\ MirrorsForest(Output)
        /\ Acyclic(connections) => AllNodesRendered(Output)

\* a chain of three nodes, one of them without twin payload, was rendered
C5_Witness ==
    /\ builds = 1
    /\ previous # <<>>
    /\ Acyclic(connections)
    /\ \E i \in LiPositions(Output) :
          /\ LiDepth(Output, i) = 2
          /\ heap[NodeOf(Output[i].id)].data.empty
    /\ \E r \in 1..Len(heap) : Len(heap[r].children) = 2

\* A, B, C with A # B and edges (A, C) and (B, C) in the edge list
FanIn ==
    {t \in ForestIds \X ForestIds \X ForestIds :
        /\ t[1] # t[2]
        /\ \E i \in 1..Len(connections) : connections[i] = Conn(t[1], t[3])
        /\ \E i \in 1..Len(connections) : connections[i] = Conn(t[2], t[3])}

\* the one node of C is a child of the node of A and of the node of B
SharedChild(t) ==
    /\ \E k \in 1..Len(heap[NodeOf(t[1])].children) :
          heap[NodeOf(t[1])].children[k] = NodeOf(t[3])
    /\ \E k \in 1..Len(heap[NodeOf(t[2])].children) :
          heap[NodeOf(t[2])].children[k] = NodeOf(t[3])
    /\ Cardinality({r \in 1..Len(heap) : heap[r].id = t[3]}) = 1

\* every rendered occurrence of C is the same text
SameOccurrences(h, c) ==
    \A i, j \in LiPositions(h) :
        (h[i].id = c /\ h[j].id = c) => Subtree(h, i) = Subtree(h, j)

\* C4 as stated: C is rendered once under A and once under B.
C4_AsStated ==
    builds = 1 =>
        \A t \in FanIn :
            /\ SharedChild(t)
            /\ previous # <<>> =>
                  /\ \A x \in {t[1], t[2]} :
                        /\ \E i \in LiPositions(Output) : Output[i].id = x
                        /\ \A i \in LiPositions(Output) :
                              Output[i].id = x =>
                                 Count(NestedIds(Output, i), t[3]) = 1
                  /\ SameOccurrences(Output, t[3])

\* C4: when C is the target of edges from two different sources A and B,
\* the one node of C is a child of both; every rendered A nests C once per
\* edge (A, C), likewise B, all rendered occurrences of C are the same text,
\* and when the edge list has no cycle both A and B are rendered.
C4_SharedChildRenderedUnderBoth ==
    builds = 1 =>
        \A t \in FanIn :
            /\ SharedChild(t)
            /\ previous # <<>> =>
                  /\ \A x \in {t[1], t[2]} :
                        /\ Acyclic(connections) =>
                              \E i \in LiPositions(Output) : Output[i].id = x
                        /\ \A i \in LiPositions(Output) :
                              Output[i].id = x =>
                                 Count(NestedIds(Output, i), t[3])
                                    = Count(TargetsOf(connections, x), t[3])
                  /\ SameOccurrences(Output, t[3])

\* C with a twin payload was rendered under two different roots
C4_Witness ==
    /\ builds = 1
    /\ previous # <<>>
    /\ \E t \in FanIn :
          /\ ~heap[NodeOf(t[3])].data.empty
          /\ Cardinality({i \in LiPositions(Output) : Output[i].id = t[3]}) >= 2
          /\ \E k, l \in 1..Len(roots) :
                heap[roots[k]].id = t[1] /\ heap[roots[l]].id = t[2]

-----------------------------------------------------------------------------
(* Properties of the rendered elements (SpecFlow).                         *)

\* the identifiers of FlowIds that contain "pump", and those that contain
\* "tank", whatever the case of the letters
PumpNamed == {"pump1", "PumpTank"}
TankNamed == {"TANK2", "PumpTank"}

\* the element at position i of the running pass and the node it renders
Shown(i) == tree_html[i]
Rendered(i) == heap[NodeOf(tree_html[i].id)]

Tags(e) == {e.class[k] : k \in 1..Len(e.class)}

LinesOfKind(e, kind) == {k \in 1..Len(e.tooltip) : e.tooltip[k].kind = kind}

\* C6: a render pass changes neither the twin, telemetry and model stores
\* nor the nodes, their children and the roots, and a pass that follows a
\* pass with none of these changed in between produces the same output.
C6_RenderIdempotent ==
    [][ /\ (pc = "render" \/ pc' = "render") => UNCHANGED <<flowVars, forestVars>>
        /\ (pc = "render" /\ pc' = "idle" /\ previous' # <<>> /\ previous # <<>>)
              => previous' = previous ]_vars

\* a second pass over unchanged stores has rendered two nodes, one of them
\* with twin payload and telemetry, and is about to write
C6_Witness ==
    /\ pc = "render"
    /\ previous # <<>>
    /\ stack = <<>>
    /\ ~HasNextCall
    /\ Cardinality(LiPositions(tree_html)) = 2
    /\ \E i \in LiPositions(tree_html) :
          /\ ~Rendered(i).data.empty
          /\ LinesOfKind(Shown(i), "telemetry") # {}

\* C7: the tooltip of every rendered node has at most as many lines as the
\* node has properties other than "status", plus 3; the model name the
\* tooltip falls back to counts as one line.
C7_TooltipBound ==
    \A i \in LiPositions(tree_html) :
        Len(Shown(i).tooltip)
            <= Cardinality(Keys(Rendered(i).data.properties) \ {"status"}) + 3

\* a node with four telemetry entries whose tooltip reaches the bound
C7_Witness ==
    \E i \in LiPositions(tree_html) :
        /\ Len(LatestTelemetry(Shown(i).id)) = 4
        /\ Keys(Rendered(i).data.properties) \ {"status"} # {}
        /\ Len(Shown(i).tooltip)
              = Cardinality(Keys(Rendered(i).data.properties) \ {"status"}) + 3

\* C8: a rendered node has the "running" tag exactly when its identifier
\* contains "pump" (in any case) and its status property is "running", and
\* the "stopped" tag exactly when it contains "pump" and the status is
\* "stopped".
C8_PumpStateTag ==
    \A i \in LiPositions(tree_html) :
        LET props == Rendered(i).data.properties
            is    == [v \in {"running", "stopped"} |->
                        "status" \in Keys(props) /\ Get(props, "status", PyNone) = PyStr(v)]
        IN  /\ "running" \in Tags(Shown(i)) <=> (Shown(i).id \in PumpNamed /\ is["running"])
            /\ "stopped" \in Tags(Shown(i)) <=> (Shown(i).id \in PumpNamed /\ is["stopped"])

\* "PumpTank" with the status "running" was rendered with the running tag
C8_Witness ==
    \E i \in LiPositions(tree_html) :
        /\ Shown(i).id = "PumpTank"
        /\ Get(Rendered(i).data.properties, "status", PyNone) = PyStr("running")
        /\ "running" \in Tags(Shown(i))

\* C9 as stated: every node whose identifier contains "tank" has the
\* tank-node tag, whatever else the identifier contains.
C9_AsStated ==
    \A i \in LiPositions(tree_html) :
        Shown(i).id \in TankNamed => "tank-node" \in Tags(Shown(i))

\* C9: every node whose identifier contains "tank" and does not contain
\* "pump" (in any case) has the tank-node tag.
C9_TankTag ==
    \A i \in LiPositions(tree_html) :
        Shown(i).id \in TankNamed \ PumpNamed => "tank-node" \in Tags(Shown(i))

\* "TANK2" was rendered with the tank-node tag
C9_Witness ==
    \E i \in LiPositions(tree_html) :
        Shown(i).id = "TANK2" /\ "tank-node" \in Tags(Shown(i))

\* C10 as stated: a node whose identifier has no twin instance holds an
\* empty payload and is rendered with the model label "Unknown", no
\* property line, no telemetry line and no status indicator.
C10_AsStated ==
    /\ \A r \in 1..Len(heap) :
          heap[r].id \notin DOMAIN twin_instances => heap[r].data = EmptyDict
    /\ \A i \in LiPositions(tree_html) :
          Shown(i).id \notin DOMAIN twin_instances =>
              /\ Shown(i).type = "Unknown"
              /\ LinesOfKind(Shown(i), "property") = {}
              /\ LinesOfKind(Shown(i), "telemetry") = {}
              /\ Shown(i).status = <<>>

-----------------------------------------------------------------------------
(* Telemetry shown by the renderer (SpecFlow).                             *)

\* the telemetry lines of the element e, as <<name, tenths shown>>
TelemetryShown(e) ==
    LET lines == SelectSeq(e.tooltip, LAMBDA l : l.kind = "telemetry")
    IN  [k \in 1..Len(lines) |-> <<lines[k].key, lines[k].tenths>>]

\* how the tooltip displays the telemetry map data: its first three
\* entries, each value with one decimal
Displayed(data) ==
    [k \in 1..(IF Len(data) < 3 THEN Len(data) ELSE 3) |->
        <<data[k][1], (data[k][2] + 5) \div 10>>]

\* the snapshots generated so far for id, oldest first
Snapshots(id) ==
    IF id \in DOMAIN telemetry_data THEN telemetry_data[id] ELSE <<>>

IsPrefix(s, t) == Len(s) <= Len(t) /\ SubSeq(t, 1, Len(s)) = s

-----------------------------------------------------------------------------
(* Order of the roots (Spec).                                              *)

\* the identifiers of conns in the order in which a scan of the edges
\* first meets them, the source of an edge before its target
RECURSIVE FirstDiscovery(_, _)
FirstDiscovery(seen, conns) ==
    IF conns = <<>> THEN seen
    ELSE LET has(q, x) == \E k \in 1..Len(q) : q[k] = x
             s1 == IF has(seen, Head(conns).source) THEN seen
                   ELSE Append(seen, Head(conns).source)
             s2 == IF has(s1, Head(conns).target) THEN s1
                   ELSE Append(s1, Head(conns).target)
         IN  FirstDiscovery(s2, Tail(conns))

\* C12 as stated: after build_from_connections(E) on a fresh TreeGenerator
\* the roots are the identifiers that are no target, in the order in which
\* a scan of E first meets them; the order is thereby a function of E.
C12_AsStated ==
    builds = 1 =>
        IdsOf(roots) = SelectSeq(FirstDiscovery(<<>>, connections),
                                 LAMBDA id : id \notin TargetIds)

-----------------------------------------------------------------------------
(* Termination of the render pass (SpecRebuild).                           *)

\* the TreeNode objects reached from the objects S along children
RECURSIVE ReachableNodes(_)
ReachableNodes(S) ==
    LET more == S \cup UNION {{heap[r].children[k] : k \in 1..Len(heap[r].children)} : r \in S}
    IN  IF more = S THEN S ELSE ReachableNodes(more)

\* the object r is reached from its own children
OnCycle(r) ==
    r \in ReachableNodes({heap[r].children[k] : k \in 1..Len(heap[r].children)})

Roots == {roots[k] : k \in 1..Len(roots)}

\* the children of some root lead back to that root
RootOnCycle == \E r \in Roots : OnCycle(r)

\* the objects a render pass visits contain a cycle
CycleBelowRoots == \E r \in ReachableNodes(Roots) : OnCycle(r)

\* C13 as stated: a pass over a forest in which a root is on a cycle never
\* terminates, and a pass over a forest without a cycle terminates.
C13_AsStated ==
    /\ []((pc = "render" /\ RootOnCycle) => [](pc = "render"))
    /\ (pc = "render" /\ ~CycleBelowRoots) ~> (pc = "idle")

\* C13: neither the builder nor the renderer detects a cycle; every render
\* pass terminates, and a pass over a forest in which a cycle is reached
\* from a root (a root on a cycle included) recurses until the recursion
\* limit is reached and ends there with RecursionError, writing no output.
C13_CycleEndsInRecursionError ==
    /\ (pc = "render") ~> (pc = "idle")
    /\ [][(pc = "render" /\ pc' = "idle" /\ CycleBelowRoots)
            => (Len(stack) >= MaxDepth /\ previous' = <<>>)]_vars

\* a pass over a forest with a root on a cycle is at the recursion limit
C13_Witness ==
    /\ pc = "render"
    /\ RootOnCycle
    /\ Len(stack) >= MaxDepth
    /\ HasNextCall

-----------------------------------------------------------------------------
(* build_from_connections called again on the same TreeGenerator           *)
(* (SpecRebuild).                                                          *)

====
